---- MODULE Spec2Model ----
(***************************************************************************)
(* Model of tools/dynamic_inventory/inventory.c: the command line entry    *)
(* point main(), the inventory parser parse_hosts_ini(), the line decoder  *)
(* convert_ini_line() and the host lookup host()/find_dict().              *)
(*                                                                         *)
(* Text is a sequence of units; a unit is either one delimiter character   *)
(* (" ", tab, "=", "[", "]", ":") or a run of non-delimiter characters.    *)
(* JSON objects are functions from key strings to values, JSON arrays are  *)
(* sequences, JSON strings are strings.  The C library is glibc (the file  *)
(* header builds with gcc on Linux): strtok_r leaves the save pointer at   *)
(* the terminating NUL when the string is exhausted.                       *)
(***************************************************************************)
EXTENDS Integers, Sequences, FiniteSets, TLC

VARIABLES pc, argv, root, ini_file, groups_flag, sub_group, printed, lines,
          result, output, exit_code, run, pos, first

vars == <<pc, argv, root, ini_file, groups_flag, sub_group, printed, lines,
          result, output, exit_code, run, pos, first>>

\* Number of lines getline() delivers before the end of the file.
MaxLines == 3

----------------------------------------------------------------------------
(* Text helpers *)

RECURSIVE Join(_)
Join(s) == IF s = <<>> THEN "" ELSE Head(s) \o Join(Tail(s))

\* strspn(s, d) for a one-character delimiter set
strspn(s, d) ==
    IF \E i \in 1..Len(s) : s[i] # d
    THEN (CHOOSE i \in 1..Len(s) : s[i] # d /\ \A j \in 1..(i-1) : s[j] = d) - 1
    ELSE Len(s)

\* strcspn(s, d) for a one-character delimiter set
strcspn(s, d) ==
    IF \E i \in 1..Len(s) : s[i] = d
    THEN (CHOOSE i \in 1..Len(s) : s[i] = d /\ \A j \in 1..(i-1) : s[j] # d) - 1
    ELSE Len(s)

\* strchr(s, c): the index of the first c in s, 0 for a NULL result
strchr(s, c) == IF strcspn(s, c) = Len(s) THEN 0 ELSE strcspn(s, c) + 1

\* glibc strtok_r(s, d, &rest): the token (null when there is none) and the
\* text the save pointer is left at
strtok_r(s, d) ==
    LET a == SubSeq(s, strspn(s, d) + 1, Len(s))
        n == strcspn(a, d)
    IN  IF a = <<>> THEN [null |-> TRUE, tok |-> <<>>, rest |-> <<>>]
        ELSE IF n = Len(a) THEN [null |-> FALSE, tok |-> a, rest |-> <<>>]
        ELSE [null |-> FALSE, tok |-> SubSeq(a, 1, n),
              rest |-> SubSeq(a, n + 2, Len(a))]

----------------------------------------------------------------------------
(* jansson *)

json_object == [k \in {} |-> ""]

\* json_object_set_new(obj, key, value) with a non-NULL key and value
json_object_set_new(obj, key, value) ==
    [k \in (DOMAIN obj) \cup {key} |-> IF k = key THEN value ELSE obj[k]]

\* json_object_get(obj, key) # NULL
json_object_has(obj, key) == key \in DOMAIN obj

----------------------------------------------------------------------------
(* convert_ini_line *)

\* strlen of a text: the bytes before the terminator
RECURSIVE strlen(_)
strlen(s) == IF s = <<>> THEN 0 ELSE Len(Head(s)) + strlen(Tail(s))

\* the bytes malloc is asked for to hold the copy of the token
key_allocated(key_ptr) == strlen(key_ptr)

\* the bytes strcpy writes into the copy: the characters and the terminator
key_written(key_ptr) == strlen(key_ptr) + 1

\* the tokens the loop over the attributes visits
RECURSIVE attribute_tokens(_)
attribute_tokens(rest) ==
    LET t == strtok_r(rest, " ")
    IN  IF t.null THEN <<>> ELSE <<t.tok>> \o attribute_tokens(t.rest)

\* one turn of the loop over the attribute tokens
set_attribute(vars_obj, key_ptr) ==
    LET key       == strtok_r(key_ptr, "=")
        value_ptr == strchr(key_ptr, "=")
    IN  IF key.null THEN vars_obj
        ELSE IF value_ptr # 0
             THEN json_object_set_new(vars_obj, Join(key.tok),
                      Join(SubSeq(key_ptr, value_ptr + 1, Len(key_ptr))))
             ELSE json_object_set_new(vars_obj, Join(key.tok), "")

RECURSIVE vars_loop(_, _)
vars_loop(rest, vars_obj) ==
    LET t == strtok_r(rest, " ")
    IN  IF t.null THEN vars_obj
        ELSE vars_loop(t.rest, set_attribute(vars_obj, t.tok))

convert_ini_line(ini_string) ==
    LET t          == strtok_r(ini_string, " ")
        return_obj == IF t.null THEN json_object
                      ELSE json_object_set_new(json_object, "hostname", Join(t.tok))
    IN  IF t.rest = <<>> THEN return_obj
        ELSE json_object_set_new(return_obj, "vars", vars_loop(t.rest, json_object))

----------------------------------------------------------------------------
(* Input *)

BlankLines == { <<>>, <<" ">> }

RangeLine == <<"db-", "[", "a", ":", "c", "]", ".x", " ", "a", "=", "1">>

DataLines ==
    { <<"h1">>,
      <<"h1", " ", "a", "=", "1">>,
      <<"h2", " ", "a", "=", "1", " ", "c", " ", "a", "=", "b", "=", "c">>,
      <<"h2", " ", "=", "v">>,
      <<"h2", "\t", "a", "=", "1">>,
      RangeLine }

SpacedHeader == <<" ", "[", "g", "]">>

HeaderLines ==
    { <<"[", "g", "]">>,
      <<"[", "g", ":", "children", "]">>,
      <<"[", "all", ":", "vars", "]">>,
      <<"[", "_meta", "]">>,
      <<"[", "ungrouped", "]">>,
      <<"[", "]">>,
      <<"[", "oops">>,
      SpacedHeader }

Lines == BlankLines \cup DataLines \cup HeaderLines

Args ==
    { <<>>, <<"--help">>, <<"-h">>, <<"-x">>,
      <<"--list">>, <<"-H">>, <<"--host", "h1">> }

\* what an uninitialised char * can hold when it is read: NULL, the address
\* of some readable string, or an address that faults when dereferenced
UninitPointers ==
    { [kind |-> "null", s |-> ""],
      [kind |-> "str",  s |-> "vars"],
      [kind |-> "str",  s |-> "children"],
      [kind |-> "str",  s |-> "other"],
      [kind |-> "wild", s |-> ""] }

NullPtr == [kind |-> "null", s |-> ""]
StrPtr(s) == [kind |-> "str", s |-> s]

----------------------------------------------------------------------------
(* parse_hosts_ini *)

\* mutant: the children list of "all" starts empty
default_root_without_ungrouped ==
    json_object_set_new(
      json_object_set_new(
        json_object_set_new(json_object, "_meta",
            json_object_set_new(json_object, "hostvars", json_object)),
        "all", json_object_set_new(json_object, "children", <<>>)),
      "ungrouped", json_object_set_new(json_object, "hosts", <<>>))

default_root ==
    json_object_set_new(
      json_object_set_new(
        json_object_set_new(json_object, "_meta",
            json_object_set_new(json_object, "hostvars", json_object)),
        "all", json_object_set_new(json_object, "children", <<"ungrouped">>)),
      "ungrouped", json_object_set_new(json_object, "hosts", <<>>))

all_children    == root["all"]["children"]
ungrouped_hosts == root["ungrouped"]["hosts"]
hostvars        == root["_meta"]["hostvars"]

Init ==
    /\ pc = "main"
    /\ argv \in Args
    /\ root = json_object
    /\ ini_file = "unset"
    /\ groups_flag = 0
    /\ sub_group = NullPtr
    /\ printed = <<>>
    /\ lines = <<>>
    /\ result = json_object
    /\ output = <<>>
    /\ exit_code = -1
    /\ run = 1
    /\ pos = 0
    /\ first = json_object

\* the flag is an automatic variable, set to 0 by every call before the loop
groups_flag_initial == 0

\* mutant: the flag is never raised
groups_flag_never_raised(line) == groups_flag

\* the flag after the test for the first '[' line
groups_flag_after(line) ==
    IF groups_flag = 0 /\ line[1] = "[" THEN groups_flag + 1 ELSE groups_flag

\* the body of the loop for a line of the ungrouped part
ungrouped_entry(line) ==
    LET line_as_json == convert_ini_line(line)
        with_host ==
            IF json_object_has(line_as_json, "hostname")
            THEN [root EXCEPT !["ungrouped"]["hosts"] =
                        Append(@, line_as_json["hostname"])]
            ELSE root
    IN  IF json_object_has(line_as_json, "vars")
           /\ json_object_has(line_as_json, "hostname")
        THEN [with_host EXCEPT !["_meta"]["hostvars"] =
                  json_object_set_new(@, line_as_json["hostname"],
                                      line_as_json["vars"])]
        ELSE with_host

\* the header decoding of a line that starts with '[': the group name, and
\* the subsection pointer when the code assigns it
section_header(line) ==
    LET group_name == Tail(line)
        rest       == strchr(group_name, "]")
        inner      == SubSeq(group_name, 1, rest - 1)
        colon      == strchr(inner, ":")
    IN  IF rest = 0
        THEN [group_name |-> Join(group_name), assigned |-> FALSE,
              sub_group |-> NullPtr]
        ELSE IF colon = 0
        THEN [group_name |-> Join(inner), assigned |-> TRUE,
              sub_group |-> NullPtr]
        ELSE [group_name |-> Join(SubSeq(inner, 1, colon - 1)),
              assigned |-> TRUE,
              sub_group |-> StrPtr(Join(SubSeq(inner, colon + 1, Len(inner))))]

\* mutant: the name is appended to all.children on every header
get_or_add_group_appends_always(r, group_name) ==
    [(IF json_object_has(r, group_name) THEN r
      ELSE json_object_set_new(r, group_name, json_object))
        EXCEPT !["all"]["children"] = Append(@, group_name)]

\* mutant: a new group is stored but its name is not listed in all.children
get_or_add_group_not_listed(r, group_name) ==
    IF json_object_has(r, group_name) THEN r
    ELSE json_object_set_new(r, group_name, json_object)

\* get the group object, if not add a new one
get_or_add_group(r, group_name) ==
    IF json_object_has(r, group_name) THEN r
    ELSE [json_object_set_new(r, group_name, json_object)
            EXCEPT !["all"]["children"] = Append(@, group_name)]

section_messages(group_name, sub) ==
    IF sub.kind = "str" /\ sub.s = "vars"
    THEN << <<"Got vars in", group_name, sub.s>> >>
    ELSE IF sub.kind = "str" /\ sub.s = "children"
    THEN << <<"Got children in", group_name, sub.s>> >>
    ELSE <<>>

----------------------------------------------------------------------------
(* host, find_dict *)

\* The dictionary returned is the one created on entry; the only other
\* effect is a message when the value under keyname is a JSON string, and
\* every value parse_hosts_ini stores under root is an object.
find_dict(root_obj, keyname) == json_object

host(hostname, root_json) == find_dict(root_json, hostname)

----------------------------------------------------------------------------
(* main *)

argc == Len(argv) + 1

valid_options == {"-l", "-H", "--list", "--host"}

MainNoArguments ==
    /\ pc = "main"
    /\ argc <= 1
    /\ printed' = << <<"help">> >>
    /\ exit_code' = 0
    /\ pc' = "exit"
    /\ UNCHANGED <<run, pos, first, argv, root, ini_file, groups_flag, sub_group, lines, result, output>>

MainHelp ==
    /\ pc = "main"
    /\ argc > 1
    /\ argv[1] \in {"--help", "-h"}
    /\ printed' = << <<"help">> >>
    /\ exit_code' = 0
    /\ pc' = "exit"
    /\ UNCHANGED <<run, pos, first, argv, root, ini_file, groups_flag, sub_group, lines, result, output>>

MainUnknown ==
    /\ pc = "main"
    /\ argc > 1
    /\ argv[1] \notin {"--help", "-h"} \cup valid_options
    /\ printed' = << <<"Error: Unkown options provided">>, <<"help">> >>
    /\ exit_code' = 1
    /\ pc' = "exit"
    /\ UNCHANGED <<run, pos, first, argv, root, ini_file, groups_flag, sub_group, lines, result, output>>

\* a valid option: parse_hosts_ini is entered and builds the default tree
MainParse ==
    /\ pc = "main"
    /\ argc > 1
    /\ argv[1] \in valid_options
    /\ root' = default_root
    /\ pc' = "fopen"
    /\ UNCHANGED <<run, pos, first, argv, ini_file, groups_flag, sub_group, printed, lines,
                   result, output, exit_code>>

FopenFails ==
    /\ pc = "fopen"
    /\ ini_file' = "NULL"
    /\ result' = json_object
    /\ pc' = "returned"
    /\ UNCHANGED <<run, pos, first, argv, root, groups_flag, sub_group, printed, lines,
                   output, exit_code>>

FopenSucceeds ==
    /\ pc = "fopen"
    /\ ini_file' = "open"
    /\ groups_flag' = groups_flag_initial
    /\ pc' = "getline"
    /\ UNCHANGED <<run, pos, first, argv, root, sub_group, printed, lines,
                   result, output, exit_code>>

\* getline delivers a line: any line while the file is first read, and the
\* same lines again when the file is read a second time
getline(line) ==
    /\ pc = "getline"
    /\ IF run = 1 THEN Len(lines) < MaxLines
       ELSE pos < Len(lines) /\ line = lines[pos + 1]

line_read(line) ==
    /\ lines' = (IF run = 1 THEN Append(lines, line) ELSE lines)
    /\ pos' = (IF run = 1 THEN pos ELSE pos + 1)

EmptyLine ==
    /\ getline(<<>>)
    /\ line_read(<<>>)
    /\ printed' = <<>>
    /\ UNCHANGED <<run, first, pc, argv, root, ini_file, groups_flag, sub_group, result, output,
                   exit_code>>

UngroupedLine(line) ==
    /\ getline(line)
    /\ line # <<>>
    /\ groups_flag_after(line) = 0
    /\ line_read(line)
    /\ root' = ungrouped_entry(line)
    /\ printed' = <<>>
    /\ groups_flag' = groups_flag_after(line)
    /\ UNCHANGED <<run, first, pc, argv, ini_file, sub_group, result, output, exit_code>>

\* a '[' line whose ']' is found
SectionLine(line) ==
    /\ getline(line)
    /\ line # <<>>
    /\ groups_flag_after(line) # 0
    /\ line[1] = "["
    /\ LET h == section_header(line)
       IN  /\ h.assigned
           /\ sub_group' = h.sub_group
           /\ root' = get_or_add_group(root, h.group_name)
           /\ printed' = section_messages(h.group_name, h.sub_group)
    /\ groups_flag' = groups_flag_after(line)
    /\ line_read(line)
    /\ UNCHANGED <<run, first, pc, argv, ini_file, result, output, exit_code>>

\* a '[' line with no ']': sub_group is read without having been assigned
UnclosedSectionLine(line, garbage) ==
    /\ getline(line)
    /\ line # <<>>
    /\ groups_flag_after(line) # 0
    /\ line[1] = "["
    /\ LET h == section_header(line)
       IN  /\ ~h.assigned
           /\ sub_group' = garbage
           /\ root' = get_or_add_group(root, h.group_name)
           /\ printed' = section_messages(h.group_name, garbage)
    /\ pc' = IF garbage.kind = "wild" THEN "crashed" ELSE pc
    /\ groups_flag' = groups_flag_after(line)
    /\ line_read(line)
    /\ UNCHANGED <<run, first, argv, ini_file, result, output, exit_code>>

NotParsedLine(line) ==
    /\ getline(line)
    /\ line # <<>>
    /\ groups_flag_after(line) # 0
    /\ line[1] # "["
    /\ line_read(line)
    /\ printed' = << <<"=-Not parsed:", Join(line)>> >>
    /\ groups_flag' = groups_flag_after(line)
    /\ UNCHANGED <<run, first, pc, argv, root, ini_file, sub_group, result, output,
                   exit_code>>

EndOfFile ==
    /\ pc = "getline"
    /\ run = 1 \/ pos = Len(lines)
    /\ ini_file' = "closed"
    /\ result' = root
    /\ pc' = "returned"
    /\ UNCHANGED <<run, pos, first, argv, root, groups_flag, sub_group, printed, lines,
                   output, exit_code>>

\* back in main: root is never NULL, so the "Failed to read" branch is not
\* taken
MainList ==
    /\ pc = "returned"
    /\ argv[1] \in {"--list", "-l"}
    /\ output' = <<result>>
    /\ exit_code' = 0
    /\ pc' = "exit"
    /\ UNCHANGED <<run, pos, first, argv, root, ini_file, groups_flag, sub_group, printed, lines, result>>

MainHost ==
    /\ pc = "returned"
    /\ argv[1] \in {"--host", "-H"}
    /\ IF argc > 2
       THEN /\ output' = <<host(argv[2], result)>>
            /\ UNCHANGED printed
       ELSE /\ printed' = << <<"Error: Missing hostname argument">>, <<"help">> >>
            /\ UNCHANGED output
    /\ exit_code' = 0
    /\ pc' = "exit"
    /\ UNCHANGED <<run, pos, first, argv, root, ini_file, groups_flag, sub_group, lines, result>>

\* parse_hosts_ini is called again in the same process on the same file: the
\* tree, the file handle and the flag are the locals of the new call
SecondCall ==
    /\ pc = "returned"
    /\ run = 1
    /\ ini_file = "closed"
    /\ first' = result
    /\ run' = 2
    /\ pos' = 0
    /\ root' = default_root
    /\ ini_file' = "open"
    /\ groups_flag' = groups_flag_initial
    /\ printed' = <<>>
    /\ pc' = "getline"
    /\ UNCHANGED <<argv, sub_group, lines, result, output, exit_code>>

Next ==
    \/ MainNoArguments
    \/ MainHelp
    \/ MainUnknown
    \/ MainParse
    \/ FopenFails
    \/ FopenSucceeds
    \/ EmptyLine
    \/ \E line \in Lines : UngroupedLine(line)
    \/ \E line \in Lines : SectionLine(line)
    \/ \E line \in Lines, garbage \in UninitPointers :
          UnclosedSectionLine(line, garbage)
    \/ \E line \in Lines : NotParsedLine(line)
    \/ EndOfFile
    \/ MainList
    \/ MainHost

Spec == Init /\ [][Next]_vars

InitTwoRuns == Init /\ argv = <<"--list">>

NextTwoRuns ==
    \/ MainParse
    \/ FopenSucceeds
    \/ EmptyLine
    \/ \E line \in Lines : UngroupedLine(line)
    \/ \E line \in Lines : SectionLine(line)
    \/ \E line \in Lines, garbage \in UninitPointers :
          UnclosedSectionLine(line, garbage)
    \/ \E line \in Lines : NotParsedLine(line)
    \/ EndOfFile
    \/ SecondCall

\* two calls of parse_hosts_ini, one after the other, on the same lines
SpecTwoRuns == InitTwoRuns /\ [][NextTwoRuns]_vars

TypeOK ==
    /\ pc \in {"main", "fopen", "getline", "returned", "exit", "crashed"}
    /\ argv \in Args
    /\ groups_flag \in {0, 1}
    /\ ini_file \in {"unset", "NULL", "open", "closed"}
    /\ run \in {1, 2}
    /\ pos \in 0..Len(lines)
    /\ Len(lines) <= MaxLines

----------------------------------------------------------------------------
(* Vocabulary of the properties *)

Range(q) == { q[i] : i \in 1..Len(q) }

Count(q, x) == Cardinality({ i \in 1..Len(q) : q[i] = x })

\* the source was opened, so root is the tree under construction or returned
Readable == ini_file \in {"open", "closed"}

Returned == pc \in {"returned", "exit"}

\* line i of the input starts with '[' (a section line for the parser)
IsSectionLine(l) == l # <<>> /\ l[1] = "["

\* a line with an identifier that is not a section line
IsEntryLine(l) ==
    /\ l # <<>>
    /\ l[1] # "["
    /\ json_object_has(convert_ini_line(l), "hostname")

SectionRead == \E i \in 1..Len(lines) : IsSectionLine(lines[i])

\* the index of the last section line before line i, 0 when there is none
LastSectionBefore(i) ==
    IF \E j \in 1..(i - 1) : IsSectionLine(lines[j])
    THEN CHOOSE j \in 1..(i - 1) :
            /\ IsSectionLine(lines[j])
            /\ \A k \in (j + 1)..(i - 1) : ~IsSectionLine(lines[k])
    ELSE 0

\* line i is an entry of the plain host-list section [g]
InPlainSection(i, g) ==
    /\ IsEntryLine(lines[i])
    /\ LastSectionBefore(i) # 0
    /\ LET h == section_header(lines[LastSectionBefore(i)])
       IN  h.assigned /\ h.sub_group = NullPtr /\ h.group_name = g

\* line i is an entry read before any section line
InUngrouped(i) == IsEntryLine(lines[i]) /\ LastSectionBefore(i) = 0

Identifier(l) == convert_ini_line(l)["hostname"]

\* the attributes the decoder reports for an entry line
Attributes(l) ==
    IF json_object_has(convert_ini_line(l), "vars")
    THEN convert_ini_line(l)["vars"] ELSE json_object

\* the distinct elements of q in the order of their first occurrence
RECURSIVE FirstOccurrences(_)
FirstOccurrences(q) ==
    IF q = <<>> THEN <<>>
    ELSE LET front == FirstOccurrences(SubSeq(q, 1, Len(q) - 1))
             x     == q[Len(q)]
         IN  IF x \in Range(front) THEN front ELSE Append(front, x)

\* the identifiers declared on the first n lines in the plain section [g]
RECURSIVE DeclaredIn(_, _)
DeclaredIn(g, n) ==
    IF n = 0 THEN <<>>
    ELSE IF InPlainSection(n, g)
         THEN Append(DeclaredIn(g, n - 1), Identifier(lines[n]))
         ELSE DeclaredIn(g, n - 1)

GroupNames == { section_header(l).group_name : l \in HeaderLines \ {SpacedHeader} }

HasUngroupedChild(tree) ==
    /\ json_object_has(tree, "all")
    /\ json_object_has(tree["all"], "children")
    /\ "ungrouped" \in Range(tree["all"]["children"])

----------------------------------------------------------------------------
(* Properties *)

\* C1: for every readable input the tree under construction, and the tree
\* parse_hosts_ini returns, has an "all" group whose children list contains
\* "ungrouped"; no line removes it.
C1_AllChildrenHasUngrouped ==
    Readable => /\ HasUngroupedChild(root)
                /\ Returned => HasUngroupedChild(result)

\* C1 witness: a tree returned for an input with a host and two groups
C1_Witness ==
    /\ Readable /\ Returned
    /\ Len(result["all"]["children"]) = 3
    /\ result["ungrouped"]["hosts"] # <<>>

\* C2 (as claimed): every entry line of a plain section [g] has its
\* identifier in g.hosts, in first-declaration order, and its attributes in
\* _meta.hostvars[identifier].
C2_PlainSectionHosts ==
    Readable =>
      \A g \in GroupNames :
        DeclaredIn(g, Len(lines)) # <<>> =>
          /\ json_object_has(root, g)
          /\ json_object_has(root[g], "hosts")
          /\ root[g]["hosts"] = FirstOccurrences(DeclaredIn(g, Len(lines)))
          /\ \A i \in 1..Len(lines) :
               InPlainSection(i, g) =>
                 \A k \in DOMAIN Attributes(lines[i]) :
                   /\ json_object_has(hostvars, Identifier(lines[i]))
                   /\ k \in DOMAIN hostvars[Identifier(lines[i])]

\* the latest declaration of host h in the ungrouped part that sets key k
LatestSetting(h, k) ==
    CHOOSE i \in 1..Len(lines) :
        /\ InUngrouped(i) /\ Identifier(lines[i]) = h
        /\ k \in DOMAIN Attributes(lines[i])
        /\ \A j \in (i + 1)..Len(lines) :
             ~(InUngrouped(j) /\ Identifier(lines[j]) = h
                 /\ k \in DOMAIN Attributes(lines[j]))

\* C3 (as claimed, for the declarations of the ungrouped part): the
\* variables of a host are the union of the attributes of all its
\* declarations, the latest declaration winning on a shared key.
C3_HostvarsUnion ==
    Readable =>
      \A i \in 1..Len(lines) :
        InUngrouped(i) =>
          \A k \in DOMAIN Attributes(lines[i]) :
            LET h == Identifier(lines[i])
            IN  /\ json_object_has(hostvars, h)
                /\ k \in DOMAIN hostvars[h]
                /\ hostvars[h][k] = Attributes(lines[LatestSetting(h, k)])[k]

\* the keys of the tree before any line is read
DefaultKeys == DOMAIN default_root

\* the group name the parser takes from a section line
HeaderName(l) == section_header(l).group_name

HeaderStep(l) ==
    LET n == HeaderName(l)
    IN  /\ json_object_has(root, n) => root' = root
        /\ ~json_object_has(root, n) =>
              /\ DOMAIN root' = DOMAIN root \cup {n}
              /\ root'[n] = json_object
              /\ root'["all"]["children"] = Append(all_children, n)
              /\ root'["_meta"] = root["_meta"]
              /\ root'["ungrouped"] = root["ungrouped"]
              /\ \A k \in DOMAIN root \ DefaultKeys : root'[k] = root[k]
        /\ Count(root'["all"]["children"], n)
              = IF n \in {"all", "_meta"} THEN 0 ELSE 1

C6_UnreadableGivesCanonicalTree ==
    (Returned /\ ini_file = "NULL") =>
        /\ DOMAIN result = {"_meta", "all", "ungrouped"}
        /\ result = default_root

\* a step of the loop that reads one more line
ReadsLine == pc = "getline" /\ Len(lines') = Len(lines) + 1

LineRead == lines'[Len(lines')]

\* C7 (as claimed): a '[' line without ']' is skipped: the tree is left as
\* it is and the parse goes on to the next line.
C7_UnclosedHeaderSkipped ==
    [][ (ReadsLine /\ IsSectionLine(LineRead)
            /\ ~section_header(LineRead).assigned)
          => (root' = root /\ pc' = "getline") ]_vars

\* the line without its leading spaces
TrimLeft(l) == SubSeq(l, strspn(l, " ") + 1, Len(l))

\* the class section 4.1 gives a line
LineClass(l) ==
    IF TrimLeft(l) = <<>> THEN "Blank"
    ELSE IF TrimLeft(l)[1] = "[" THEN "GroupHeader"
    ELSE "DataLine"

\* C8 (as claimed): a line that is empty after trimming changes nothing, a
\* line whose first non-space character is '[' is handled as a group header
\* (the parser leaves the ungrouped part, the group exists, no host is
\* recorded), and any other line is handled as data (no group appears).
C8_LineClassification ==
    [][ ReadsLine =>
          /\ LineClass(LineRead) = "Blank" =>
                (root' = root /\ groups_flag' = groups_flag)
          /\ LineClass(LineRead) = "GroupHeader" =>
                /\ groups_flag' # 0
                /\ json_object_has(root', HeaderName(TrimLeft(LineRead)))
                /\ root'["ungrouped"] = root["ungrouped"]
                /\ root'["_meta"] = root["_meta"]
          /\ LineClass(LineRead) = "DataLine" =>
                (groups_flag' = groups_flag /\ DOMAIN root' = DOMAIN root) ]_vars

IsWhitespace(c) == c \in {" ", "\t"}

\* the whitespace-separated tokens of a line
RECURSIVE Tokens(_)
Tokens(l) ==
    IF l = <<>> THEN <<>>
    ELSE IF IsWhitespace(l[1]) THEN Tokens(Tail(l))
    ELSE LET n == IF \E i \in 1..Len(l) : IsWhitespace(l[i])
                  THEN (CHOOSE i \in 1..Len(l) :
                           /\ IsWhitespace(l[i])
                           /\ \A j \in 1..(i - 1) : ~IsWhitespace(l[j])) - 1
                  ELSE Len(l)
         IN  <<SubSeq(l, 1, n)>> \o Tokens(SubSeq(l, n + 1, Len(l)))

\* the text of a token before its first '=', and after it
TokenKey(t) == Join(SubSeq(t, 1, strcspn(t, "=")))
TokenValue(t) ==
    IF strchr(t, "=") = 0 THEN ""
    ELSE Join(SubSeq(t, strchr(t, "=") + 1, Len(t)))

\* the mapping section 4.2 gives the attribute tokens: last occurrence wins
TokenMapping(ts) ==
    [k \in { TokenKey(ts[i]) : i \in 1..Len(ts) } |->
        TokenValue(ts[CHOOSE i \in 1..Len(ts) :
                         /\ TokenKey(ts[i]) = k
                         /\ \A j \in (i + 1)..Len(ts) : TokenKey(ts[j]) # k])]

\* C9 (as claimed): for every data line handed to convert_ini_line the
\* identifier is the first whitespace-separated token and the attributes
\* are the mapping of the remaining tokens.
C9_EntryDecoded ==
    Readable =>
      \A i \in 1..Len(lines) :
        (InUngrouped(i) /\ LineClass(lines[i]) = "DataLine") =>
          /\ Identifier(lines[i]) = Join(Head(Tokens(lines[i])))
          /\ Attributes(lines[i]) = TokenMapping(Tail(Tokens(lines[i])))

\* C10 (as claimed): in host mode the output for a host with an entry in
\* _meta.hostvars is that entry, and an empty object for any other host.
C10_HostModeReturnsHostvars ==
    (pc = "exit" /\ argc > 2 /\ argv[1] \in {"--host", "-H"} /\ Readable) =>
        output = << IF json_object_has(result["_meta"]["hostvars"], argv[2])
                    THEN result["_meta"]["hostvars"][argv[2]]
                    ELSE json_object >>

\* the letters an alphabetic range runs over, in ascending order
Alphabet == <<"a", "b", "c", "d", "e", "f">>

AlphabetIndex(x) == CHOOSE i \in 1..Len(Alphabet) : Alphabet[i] = x

\* the identifier token of an entry line, as units
IdentifierUnits(l) == Head(Tokens(l))

\* the identifier holds a bracketed range [lo:hi]
HasRange(l) ==
    LET t == IdentifierUnits(l)
    IN  /\ strchr(t, "[") # 0
        /\ strchr(t, "]") > strchr(t, "[") + 3
        /\ t[strchr(t, "[") + 2] = ":"

\* the identifiers section 4.4 expands a range identifier into
RangeExpansion(l) ==
    LET t      == IdentifierUnits(l)
        open   == strchr(t, "[")
        close  == strchr(t, "]")
        lo     == AlphabetIndex(t[open + 1])
        hi     == AlphabetIndex(t[open + 3])
        prefix == Join(SubSeq(t, 1, open - 1))
        suffix == Join(SubSeq(t, close + 1, Len(t)))
    IN  [i \in 1..(hi - lo + 1) |-> prefix \o Alphabet[lo + i - 1] \o suffix]

\* C11 (as claimed): an entry whose identifier holds a range is recorded as
\* one host per element of the range, in ascending order, each with the
\* attributes of the line.
C11_RangeExpanded ==
    Readable =>
      \A i \in 1..Len(lines) :
        (InUngrouped(i) /\ HasRange(lines[i])) =>
          LET e == RangeExpansion(lines[i])
          IN  /\ \E k \in 1..(Len(ungrouped_hosts) - Len(e) + 1) :
                    SubSeq(ungrouped_hosts, k, k + Len(e) - 1) = e
              /\ \A n \in 1..Len(e) :
                    /\ json_object_has(hostvars, e[n])
                    /\ \A a \in DOMAIN Attributes(lines[i]) :
                          a \in DOMAIN hostvars[e[n]]

\* line i is an entry of the section [g:sub]
InSubsection(i, g, sub) ==
    /\ IsEntryLine(lines[i])
    /\ LastSectionBefore(i) # 0
    /\ LET h == section_header(lines[LastSectionBefore(i)])
       IN  h.assigned /\ h.sub_group = StrPtr(sub) /\ h.group_name = g

\* line i is a one-token line of a section [g:vars] that sets the key k
SetsGroupVar(i, g, k) ==
    /\ InSubsection(i, g, "vars")
    /\ Len(Tokens(lines[i])) = 1
    /\ TokenKey(Head(Tokens(lines[i]))) = k

\* C12 (as claimed): a line key=value of a section [g:vars] sets
\* g.vars[key] = value and a bare key sets g.vars[key] = ""; the latest such
\* line of a key gives its value.
C12_GroupVarsSet ==
    Readable =>
      \A g \in GroupNames, i \in 1..Len(lines) :
        (SetsGroupVar(i, g, TokenKey(Head(Tokens(lines[i]))))
           /\ \A j \in (i + 1)..Len(lines) :
                ~SetsGroupVar(j, g, TokenKey(Head(Tokens(lines[i]))))) =>
          /\ json_object_has(root, g)
          /\ json_object_has(root[g], "vars")
          /\ json_object_has(root[g]["vars"], TokenKey(Head(Tokens(lines[i]))))
          /\ root[g]["vars"][TokenKey(Head(Tokens(lines[i])))]
                = TokenValue(Head(Tokens(lines[i])))

\* C13 (as claimed): an entry of a section [g:children] adds its identifier
\* to g.children, and the child is a group of the tree listed once in
\* all.children.
C13_ChildrenAdded ==
    Readable =>
      \A g \in GroupNames, i \in 1..Len(lines) :
        InSubsection(i, g, "children") =>
          /\ json_object_has(root, g)
          /\ json_object_has(root[g], "children")
          /\ Identifier(lines[i]) \in Range(root[g]["children"])
          /\ json_object_has(root, Identifier(lines[i]))
          /\ Count(all_children, Identifier(lines[i])) = 1

\* the identifiers declared on the first n lines, before any section line
RECURSIVE UngroupedDeclared(_)
UngroupedDeclared(n) ==
    IF n = 0 THEN <<>>
    ELSE IF InUngrouped(n)
         THEN Append(UngroupedDeclared(n - 1), Identifier(lines[n]))
         ELSE UngroupedDeclared(n - 1)

\* C14 (as claimed): ungrouped.hosts lists the distinct identifiers declared
\* before the first section line, each once, in first-declaration order.
C14_UngroupedHostsDistinct ==
    Readable =>
      ungrouped_hosts = FirstOccurrences(UngroupedDeclared(Len(lines)))

\* C15 (as claimed): exit status 0 with no arguments or a help option, 1 with
\* an unrecognised first argument, and 1 with a valid option when the source
\* file cannot be opened.
C15_ExitStatus ==
    pc = "exit" =>
      IF argc <= 1 THEN exit_code = 0
      ELSE IF argv[1] \in {"--help", "-h"} THEN exit_code = 0
      ELSE IF argv[1] \notin valid_options THEN exit_code = 1
      ELSE ini_file = "NULL" => exit_code = 1

\* C17: all.children has no duplicate entry, and its entries other than
\* "ungrouped" are exactly the keys of the tree other than _meta, all and
\* ungrouped, also after headers naming a default key or the empty name.
C17_ChildrenMatchGroupKeys ==
    Readable =>
      /\ \A x \in Range(all_children) : Count(all_children, x) = 1
      /\ Range(all_children) \ {"ungrouped"} = DOMAIN root \ DefaultKeys

\* C17 witness: headers naming a default key and the empty name were read,
\* beside a header of an ordinary group
C17_Witness ==
    /\ Readable
    /\ \E i, j, k \in 1..Len(lines) :
         /\ IsSectionLine(lines[i]) /\ HeaderName(lines[i]) \in DefaultKeys
         /\ IsSectionLine(lines[j]) /\ HeaderName(lines[j]) = ""
         /\ IsSectionLine(lines[k]) /\ HeaderName(lines[k]) = "g"
    /\ Range(all_children) = {"ungrouped", "", "g"}

\* C18 (as claimed): for every attribute token of every line handed to
\* convert_ini_line, the bytes written into the key copy do not exceed the
\* bytes allocated for it.
C18_KeyCopyFits ==
    Readable =>
      \A i \in 1..Len(lines) :
        InUngrouped(i) =>
          LET ts == attribute_tokens(strtok_r(lines[i], " ").rest)
          IN  \A n \in 1..Len(ts) : key_written(ts[n]) <= key_allocated(ts[n])

\* C16 (as claimed): once the first call of parse_hosts_ini has returned its
\* tree, a second call on the same lines returns too, and its tree is
\* identical to the first, lists included.
C16_SecondParseIdentical ==
    (run = 2 /\ pc \in {"returned", "crashed"}) =>
        (pc = "returned" /\ result = first)

====
